---- MODULE Spec2Model ----
(***************************************************************************)
(* Model of src/ict.py: charge-transfer diagnostics (DCT, qCT) computed    *)
(* from two Gaussian cube files.                                           *)
(*                                                                         *)
(* Representation.                                                         *)
(*  - Axes are 0..2 as in the source (x, y, z).                            *)
(*  - A NumPy array is a record [shape, data]: shape is a function on the  *)
(*    axes, data the flat C-order (row-major) buffer as a sequence.        *)
(*  - Density values, origins and spacings are integers; a quotient        *)
(*    (the centroid components) is an exact fraction <<num, den>> in       *)
(*    lowest terms with den > 0.  IEEE rounding, NaN and infinities are    *)
(*    outside the model.                                                   *)
(*  - numpy.linalg.norm(v) is kept symbolically as [sqrt_of |-> v . v].    *)
(***************************************************************************)
EXTENDS Integers, Sequences, FiniteSets, TLC

VARIABLES
    pc,                  \* control location of the running operation
    ground_state_file,   \* main: args.ground_state_file (the file read)
    excited_state_file,  \* main: args.excited_state_file
    result_file,         \* content of args.output_file, a sequence of blocks
    stdout,              \* main: what was printed
    origin,              \* origin in scope (main / calculate_centroid)
    grid_size,           \* grid_size in scope
    grid_spacing,        \* grid_spacing in scope
    ground_density,      \* main / compute_density_difference argument
    excited_density,
    delta_rho_plus,
    delta_rho_minus,
    dct,
    qct,
    centroid_plus,
    centroid_minus,
    density,             \* calculate_centroid: argument
    total_density,       \* calculate_centroid: np.sum(density)
    grid_positions,      \* calculate_centroid: (3, nx, ny, nz) array, by axis
    centroid,            \* calculate_centroid: result vector, by axis
    futures,             \* calculate_centroid: the current executor's futures
    i,                   \* calculate_centroid: index of the collecting loop
    cube,                \* read_cube_file harness: the file
    read_result          \* read_cube_file harness: what the call produced

vars == <<pc, ground_state_file, excited_state_file, result_file, stdout,
          origin, grid_size, grid_spacing, ground_density, excited_density,
          delta_rho_plus, delta_rho_minus, dct, qct, centroid_plus,
          centroid_minus, density, total_density, grid_positions, centroid,
          futures, i, cube, read_result>>

mainVars == <<ground_state_file, excited_state_file, result_file, stdout>>
geomVars == <<origin, grid_size, grid_spacing>>
diffVars == <<ground_density, excited_density, delta_rho_plus, delta_rho_minus>>
metricVars == <<dct, qct, centroid_plus, centroid_minus>>
centroidVars == <<density, total_density, grid_positions, centroid, futures, i>>
readVars == <<cube, read_result>>

-----------------------------------------------------------------------------
(* Bounds of the model *)

\* most nonzero cells in a density field handed to calculate_centroid
MaxPts == 2
\* most nonzero cells in each of the two fields of a ground/excited pair
PairPts == 1
\* most nonzero values in the data of a cube file read by main
FilePts == 1
\* most lines after the six header lines in a cube file given to the reader
MaxLines == 3
\* most tokens on one such line
MaxTok == 3

Axes == 0..2
None == "None"

-----------------------------------------------------------------------------
(* Integer and fraction arithmetic *)

Abs(x) == IF x < 0 THEN -x ELSE x

RECURSIVE Gcd(_, _)
Gcd(a, b) == IF b = 0 THEN a ELSE Gcd(b, a % b)

\* the exact value n / d.  NumPy scalars do not raise on a zero divisor:
\* n / 0 is <<1, 0>> (inf), <<-1, 0>> (-inf) or <<0, 0>> (nan)
Frac(n, d) ==
    IF d = 0
    THEN <<(IF n > 0 THEN 1 ELSE IF n < 0 THEN -1 ELSE 0), 0>>
    ELSE LET g == Gcd(Abs(n), Abs(d))
             s == IF d < 0 THEN -1 ELSE 1
         IN  <<s * (n \div g), s * (d \div g)>>

FracSub(x, y) == Frac(x[1] * y[2] - y[1] * x[2], x[2] * y[2])
FracAdd(x, y) == Frac(x[1] * y[2] + y[1] * x[2], x[2] * y[2])
FracMul(x, y) == Frac(x[1] * y[1], x[2] * y[2])
FracNeg(x) == <<-x[1], x[2]>>
Zero == <<0, 1>>

RECURSIVE SeqSum(_)
SeqSum(s) == IF s = <<>> THEN 0 ELSE Head(s) + SeqSum(Tail(s))

-----------------------------------------------------------------------------
(* NumPy arrays *)

Shape(nx, ny, nz) == [a \in Axes |-> CASE a = 0 -> nx [] a = 1 -> ny [] a = 2 -> nz]

NumCells(shape) == shape[0] * shape[1] * shape[2]

\* index along axis a of the cell at flat C-order position p (0-based):
\* np.indices(shape)[a] at that cell
IndexOf(shape, p, a) ==
    CASE a = 0 -> p \div (shape[1] * shape[2])
      [] a = 1 -> (p \div shape[2]) % shape[1]
      [] a = 2 -> p % shape[2]

\* flat position of cell (ix, iy, iz)
FlatPos(shape, ix, iy, iz) == (ix * shape[1] + iy) * shape[2] + iz

\* arr[ix, iy, iz]
At(arr, ix, iy, iz) == arr.data[FlatPos(arr.shape, ix, iy, iz) + 1]

NpSum(arr) == SeqSum(arr.data)

ZerosLike(arr) == [shape |-> arr.shape, data |-> [p \in 1..Len(arr.data) |-> 0]]

-----------------------------------------------------------------------------
(* read_cube_file *)

\* A cube file: [exists, num_atoms, origin, grid_size, grid_spacing, body].
\* Lines 0 and 1 are free text; line 2 is <num_atoms origin>; lines 3..5 are
\* <count spacing-vector>; body is the sequence of the lines from index 6 on
\* (atom records, then values), each a sequence of numeric tokens.
HeaderLine(f, n) ==
    IF n = 2
    THEN <<f.num_atoms, f.origin[0], f.origin[1], f.origin[2]>>
    ELSE <<f.grid_size[n - 3], f.grid_spacing[n - 3][0],
           f.grid_spacing[n - 3][1], f.grid_spacing[n - 3][2]>>

NumLines(f) == 6 + Len(f.body)

Line(f, n) == IF n >= 6 THEN f.body[n - 5] ELSE HeaderLine(f, n)

\* first index of the Python slice lines[data_start:]
SliceStart(f) ==
    LET data_start == 6 + f.num_atoms
        n == NumLines(f)
    IN  IF data_start >= 0
        THEN (IF data_start > n THEN n ELSE data_start)
        ELSE (IF n + data_start < 0 THEN 0 ELSE n + data_start)

\* the tokens of lines[data_start:], in file order
RECURSIVE TokensFrom(_, _)
TokensFrom(f, n) ==
    IF n >= NumLines(f) THEN <<>> ELSE Line(f, n) \o TokensFrom(f, n + 1)

\* ndarray.reshape(grid_size) of a flat buffer of `count` values: the
\* resulting shape, or failure.  One entry -1 is inferred from the count.
Reshape(count, size) ==
    LET unknown == {a \in Axes : size[a] < 0}
        known == LET k(a) == IF a \in unknown THEN 1 ELSE size[a]
                 IN  k(0) * k(1) * k(2)
    IN  IF \E a \in unknown : size[a] # -1
          THEN [ok |-> FALSE, shape |-> size]
        ELSE IF Cardinality(unknown) > 1
          THEN [ok |-> FALSE, shape |-> size]
        ELSE IF Cardinality(unknown) = 1
          THEN IF known = 0 \/ count % known # 0
               THEN [ok |-> FALSE, shape |-> size]
               ELSE [ok |-> TRUE,
                     shape |-> [a \in Axes |-> IF a \in unknown
                                               THEN count \div known
                                               ELSE size[a]]]
        ELSE [ok |-> (known = count), shape |-> size]

ReadCubeFile(f) ==
    IF ~f.exists
    THEN [ok |-> FALSE, error |-> "FileNotFoundError"]
    ELSE IF SliceStart(f) < 2
    THEN [ok |-> FALSE, error |-> "ValueError"]   \* float() of free text
    ELSE LET flat == TokensFrom(f, SliceStart(f))
             r == Reshape(Len(flat), f.grid_size)
         IN  IF ~r.ok
             THEN [ok |-> FALSE, error |-> "ValueError"]
             ELSE [ok |-> TRUE,
                   origin |-> f.origin,
                   grid_size |-> f.grid_size,
                   grid_spacing |-> f.grid_spacing,
                   density_data |-> [shape |-> r.shape, data |-> flat]]

-----------------------------------------------------------------------------
(* compute_density_difference *)

\* np.where(delta_rho > 0, delta_rho, 0)
WherePositiveUnmasked(d) == d

WherePositive(d) == IF d > 0 THEN d ELSE 0

\* np.where(delta_rho < 0, delta_rho, 0)
WhereNegativeMagnitude(d) == IF d < 0 THEN -d ELSE 0

WhereNegative(d) == IF d < 0 THEN d ELSE 0

ComputeDensityDifference(ground, excited) ==
    LET delta_rho == [p \in 1..Len(ground.data) |->
                        excited.data[p] - ground.data[p]]
    IN  [plus  |-> [shape |-> ground.shape,
                    data |-> [p \in 1..Len(delta_rho) |->
                                 WherePositive(delta_rho[p])]],
         minus |-> [shape |-> ground.shape,
                    data |-> [p \in 1..Len(delta_rho) |->
                                 WhereNegative(delta_rho[p])]]]

-----------------------------------------------------------------------------
(* calculate_centroid: the two per-axis tasks and their sequential result *)

Zeros3 == [a \in Axes |-> Zero]

\* line 112: total_density == 0
ZeroMassNever(total) == FALSE

ZeroMassNonPositive(total) == total <= 0

ZeroMass(total) == total = 0

\* the body of the first lambda: origin[idx] + grid_indices[idx] *
\* grid_spacing[idx][idx], an array over the grid, as its flat buffer
PositionTaskRow(idx, o, size, spacing) ==
    [p \in 1..NumCells(size) |->
        o[idx] + IndexOf(size, p - 1, idx) * spacing[idx][0]]

PositionTask(idx, o, size, spacing) ==
    [p \in 1..NumCells(size) |->
        o[idx] + IndexOf(size, p - 1, idx) * spacing[idx][idx]]

\* the body of the second lambda:
\* np.sum(grid_positions[idx] * density) / total_density
WeightedSumTask(idx, positions, dens, total) ==
    Frac(SeqSum([p \in 1..Len(dens.data) |->
                    positions[idx][p] * dens.data[p]]), total)

\* np.indices(grid_size) raises ValueError on a negative dimension; the
\* product grid_positions[idx] * density needs the two shapes to agree
GridUsable(dens, size) ==
    /\ \A a \in Axes : size[a] >= 0
    /\ size = dens.shape

\* the result of calculate_centroid with the tasks run one after the other
CalculateCentroid(dens, o, size, spacing) ==
    LET total == NpSum(dens)
    IN  IF ZeroMass(total)
        THEN [ok |-> TRUE, value |-> Zeros3]
        ELSE IF ~GridUsable(dens, size)
        THEN [ok |-> FALSE, value |-> Zeros3]
        ELSE LET positions == [a \in Axes |-> PositionTask(a, o, size, spacing)]
             IN  [ok |-> TRUE,
                  value |-> [a \in Axes |->
                                WeightedSumTask(a, positions, dens, total)]]

-----------------------------------------------------------------------------
(* compute_dct_and_qct *)

\* np.linalg.norm(u - v), kept as the fraction under the square root
Norm(u, v) ==
    LET sq(a) == FracMul(FracSub(u[a], v[a]), FracSub(u[a], v[a]))
    IN  [sqrt_of |-> FracAdd(FracAdd(sq(0), sq(1)), sq(2))]

ComputeDctAndQct(plus, minus, o, size, spacing) ==
    LET cp == CalculateCentroid(plus, o, size, spacing)
        cm == CalculateCentroid(minus, o, size, spacing)
    IN  IF ~cp.ok \/ ~cm.ok
        THEN [ok |-> FALSE]
        ELSE [ok |-> TRUE,
              dct |-> Norm(cp.value, cm.value),
              qct |-> NpSum(plus),
              centroid_plus |-> cp.value,
              centroid_minus |-> cm.value]

-----------------------------------------------------------------------------
(* Inputs *)

Vec3(x, y, z) == [a \in Axes |-> CASE a = 0 -> x [] a = 1 -> y [] a = 2 -> z]

Identity == Vec3(Vec3(1, 0, 0), Vec3(0, 1, 0), Vec3(0, 0, 1))
SkewA == Vec3(Vec3(2, 1, 0), Vec3(0, 3, 1), Vec3(1, 0, 5))
SkewB == Vec3(Vec3(2, 0, 4), Vec3(7, 3, 0), Vec3(0, 2, 5))
Spacings == {Identity, SkewA, SkewB}

Geometries ==
    {[origin |-> Vec3(0, 0, 0), grid_spacing |-> Identity],
     [origin |-> Vec3(1, -2, 3), grid_spacing |-> SkewA]}

\* the flat buffers of length n with at most k nonzero entries, from vals
RECURSIVE Sparse(_, _, _)
Sparse(n, vals, k) ==
    IF k = 0
    THEN {[p \in 1..n |-> 0]}
    ELSE LET S == Sparse(n, vals, k - 1)
         IN  S \cup {[f EXCEPT ![p] = v] : f \in S, p \in 1..n, v \in vals}

FieldsOf(shape, vals, k) ==
    {[shape |-> shape, data |-> d] : d \in Sparse(NumCells(shape), vals, k)}

CalcShapes == {Shape(2, 2, 2), Shape(3, 1, 2)}

\* fields with cells of unequal weight
WeightedFields ==
    {[shape |-> Shape(2, 2, 2), data |-> <<2, 0, 0, 0, 0, 0, 0, 1>>],
     [shape |-> Shape(2, 2, 2), data |-> <<0, 3, 0, 0, -1, 0, 2, 0>>],
     [shape |-> Shape(2, 2, 2), data |-> <<0, 0, -3, 1, 0, 2, 0, 0>>],
     [shape |-> Shape(3, 1, 2), data |-> <<1, 0, 0, 2, 0, 3>>],
     [shape |-> Shape(3, 1, 2), data |-> <<0, -2, 5, 0, 0, -1>>]}

\* fields handed to calculate_centroid: cells of either sign
CentroidFields ==
    WeightedFields \cup
    UNION {FieldsOf(sh, {-1, 1}, MaxPts) : sh \in CalcShapes}

\* grid_size arguments tried with a field: its own shape, a size with a
\* negative count (as read_cube_file can return), and for a field without
\* mass one more size that does not describe it
SizesFor(dens) ==
    {dens.shape} \cup
    {Shape(-1, 2, 2)} \cup
    (IF NpSum(dens) = 0 THEN {Shape(1, 1, 1)} ELSE {})

\* ground/excited pairs of one shape
DensityPairs ==
    UNION {FieldsOf(sh, {1, 2}, PairPts) \X FieldsOf(sh, {1, 2}, PairPts) :
           sh \in CalcShapes}

-----------------------------------------------------------------------------
(* calculate_centroid as it runs: the main thread and the pool's tasks *)

\* executor.submit(lambda idx: ..., i): the argument the task is given
SubmitArgLate(n) == 2

SubmitArg(n) == n

Future(arg) == [arg |-> arg, state |-> "pending", result |-> <<>>]

Phase1 == {"cc_submit1", "cc_collect1", "cc_exit1"}
Phase2 == {"cc_submit2", "cc_collect2", "cc_exit2"}

\* lines 110-120
Entry ==
    /\ pc = "cc_entry"
    /\ total_density' = NpSum(density)
    /\ IF ZeroMass(NpSum(density))
       THEN /\ pc' = "cc_return"
            /\ centroid' = Zeros3
            /\ UNCHANGED grid_positions
       ELSE IF \E a \in Axes : grid_size[a] < 0
       THEN /\ pc' = "cc_raise"           \* np.indices: ValueError
            /\ UNCHANGED <<centroid, grid_positions>>
       ELSE /\ pc' = "cc_submit1"
            /\ grid_positions' =
                   [a \in Axes |-> [p \in 1..NumCells(grid_size) |-> 0]]
            /\ UNCHANGED centroid
    /\ UNCHANGED <<density, futures, i, geomVars, mainVars, diffVars,
                   metricVars, readVars>>

\* lines 125-126 and 135-136: one executor.submit
Submit ==
    /\ pc \in {"cc_submit1", "cc_submit2"}
    /\ futures' = Append(futures, Future(SubmitArg(Len(futures))))
    /\ IF Len(futures) = 2
       THEN /\ pc' = (IF pc = "cc_submit1" THEN "cc_collect1" ELSE "cc_collect2")
            /\ i' = 0
       ELSE UNCHANGED <<pc, i>>
    /\ UNCHANGED <<density, total_density, grid_positions, centroid, geomVars,
                   mainVars, diffVars, metricVars, readVars>>

\* a pool thread runs a submitted position task (line 126)
RunPositionTask(k) ==
    /\ pc \in Phase1
    /\ k \in 1..Len(futures)
    /\ futures[k].state = "pending"
    /\ futures' = [futures EXCEPT ![k] =
           [arg |-> futures[k].arg, state |-> "done",
            result |-> PositionTask(futures[k].arg, origin, grid_size,
                                    grid_spacing)]]
    /\ UNCHANGED <<pc, density, total_density, grid_positions, centroid, i,
                   geomVars, mainVars, diffVars, metricVars, readVars>>

\* a pool thread runs a submitted weighted-sum task (line 136)
RunWeightedSumTask(k) ==
    /\ pc \in Phase2
    /\ k \in 1..Len(futures)
    /\ futures[k].state = "pending"
    /\ futures' = [futures EXCEPT ![k] =
           [arg |-> futures[k].arg, state |-> "done",
            result |-> WeightedSumTask(futures[k].arg, grid_positions, density,
                                       total_density)]]
    /\ UNCHANGED <<pc, density, total_density, grid_positions, centroid, i,
                   geomVars, mainVars, diffVars, metricVars, readVars>>

\* lines 128-129: grid_positions[i] = future.result()
CollectPosition ==
    /\ pc = "cc_collect1"
    /\ futures[i + 1].state = "done"
    /\ grid_positions' = [grid_positions EXCEPT ![i] = futures[i + 1].result]
    /\ i' = i + 1
    /\ pc' = (IF i = 2 THEN "cc_exit1" ELSE pc)
    /\ UNCHANGED <<density, total_density, centroid, futures, geomVars,
                   mainVars, diffVars, metricVars, readVars>>

\* lines 138-139: centroid[i] = future.result()
CollectWeightedSum ==
    /\ pc = "cc_collect2"
    /\ futures[i + 1].state = "done"
    /\ centroid' = [centroid EXCEPT ![i] = futures[i + 1].result]
    /\ i' = i + 1
    /\ pc' = (IF i = 2 THEN "cc_exit2" ELSE pc)
    /\ UNCHANGED <<density, total_density, grid_positions, futures, geomVars,
                   mainVars, diffVars, metricVars, readVars>>

\* the end of a with-block: executor.shutdown(wait=True)
ExitExecutor ==
    /\ pc \in {"cc_exit1", "cc_exit2"}
    /\ \A k \in 1..Len(futures) : futures[k].state = "done"
    /\ futures' = <<>>
    /\ IF pc = "cc_exit1"
       THEN /\ pc' = "cc_submit2"
            /\ centroid' = Zeros3          \* line 132
       ELSE /\ pc' = "cc_return"           \* line 142
            /\ UNCHANGED centroid
    /\ UNCHANGED <<density, total_density, grid_positions, i, geomVars,
                   mainVars, diffVars, metricVars, readVars>>

CentroidNext ==
    \/ Entry
    \/ Submit
    \/ \E k \in 1..3 : RunPositionTask(k)
    \/ \E k \in 1..3 : RunWeightedSumTask(k)
    \/ CollectPosition
    \/ CollectWeightedSum
    \/ ExitExecutor

-----------------------------------------------------------------------------
(* The functions called directly *)

Unset == <<>>

InitCalc ==
    /\ pc = "idle"
    /\ ground_state_file = Unset /\ excited_state_file = Unset
    /\ result_file = <<>> /\ stdout = <<>>
    /\ origin = Unset /\ grid_size = Unset /\ grid_spacing = Unset
    /\ ground_density = Unset /\ excited_density = Unset
    /\ delta_rho_plus = Unset /\ delta_rho_minus = Unset
    /\ dct = Unset /\ qct = Unset
    /\ centroid_plus = Unset /\ centroid_minus = Unset
    /\ density = Unset /\ total_density = 0
    /\ grid_positions = Unset /\ centroid = Unset
    /\ futures = <<>> /\ i = 0
    /\ cube = Unset /\ read_result = Unset

\* calculate_centroid(density, origin, grid_size, grid_spacing) is called
CallCalculateCentroid ==
    /\ pc = "idle"
    /\ \E dens \in CentroidFields, g \in Geometries :
         \E size \in SizesFor(dens) :
            /\ density' = dens
            /\ origin' = g.origin
            /\ grid_size' = size
            /\ grid_spacing' = g.grid_spacing
    /\ pc' = "cc_entry"
    /\ UNCHANGED <<total_density, grid_positions, centroid, futures, i,
                   mainVars, diffVars, metricVars, readVars>>

\* compute_density_difference(ground_density, excited_density) is called
CallComputeDensityDifference ==
    /\ pc = "idle"
    /\ \E pair \in DensityPairs, g \in Geometries :
         \E r \in {ComputeDensityDifference(pair[1], pair[2])} :
         /\ ground_density' = pair[1]
         /\ excited_density' = pair[2]
         /\ delta_rho_plus' = r.plus
         /\ delta_rho_minus' = r.minus
         /\ origin' = g.origin
         /\ grid_size' = pair[1].shape
         /\ grid_spacing' = g.grid_spacing
    /\ pc' = "differenced"
    /\ UNCHANGED <<centroidVars, mainVars, metricVars, readVars>>

\* compute_dct_and_qct is called on the two difference fields
CallComputeDctAndQct ==
    /\ pc = "differenced"
    /\ \E r \in {ComputeDctAndQct(delta_rho_plus, delta_rho_minus, origin,
                                 grid_size, grid_spacing)} :
           IF r.ok
           THEN /\ dct' = r.dct
                /\ qct' = r.qct
                /\ centroid_plus' = r.centroid_plus
                /\ centroid_minus' = r.centroid_minus
                /\ pc' = "measured"
           ELSE /\ pc' = "raised"
                /\ UNCHANGED metricVars
    /\ UNCHANGED <<centroidVars, mainVars, diffVars, geomVars, readVars>>

NextCalc ==
    \/ CallCalculateCentroid
    \/ CentroidNext
    \/ CallComputeDensityDifference
    \/ CallComputeDctAndQct

SpecCalc == InitCalc /\ [][NextCalc]_vars

-----------------------------------------------------------------------------
(* main *)

\* an atom record: atomic number, charge, x, y, z
AtomLine == <<6, 0, 0, 0, 0>>

MainSizes == {Shape(2, 1, 2), Shape(-1, 1, 2), Shape(1, 1, 2)}

\* the files main is run on: a missing file, and files with one atom whose
\* values are on one line, 2 or 4 of them
MainFiles ==
    {[exists |-> FALSE, num_atoms |-> 0, origin |-> Vec3(0, 0, 0),
      grid_size |-> Shape(1, 1, 1), grid_spacing |-> Identity,
      body |-> <<>>]}
    \cup
    {[exists |-> TRUE, num_atoms |-> 1, origin |-> g.origin,
      grid_size |-> size, grid_spacing |-> g.grid_spacing,
      body |-> <<AtomLine, values>>] :
        g \in Geometries, size \in MainSizes,
        values \in Sparse(2, {1}, FilePts) \cup Sparse(4, {1}, FilePts)}

\* a block written by an earlier run
PriorBlock == [dct |-> "earlier run"]

\* line 203: ground_density.shape != excited_density.shape
ShapesDifferLastAxis(gd, ed) == gd.shape[2] # ed.shape[2]

ShapesDiffer(gd, ed) == gd.shape # ed.shape

\* lines 227-234: open(result_file, 'a') and the writes of one block
OverwriteBlock(content, block) == <<block>>

AppendBlock(content, block) == Append(content, block)

\* the block of lines 228-234 (the two paths are those of the run)
ResultBlock ==
    [dct |-> dct, qct |-> qct,
     centroid_plus |-> centroid_plus, centroid_minus |-> centroid_minus]

Init ==
    /\ pc = "main_start"
    /\ ground_state_file \in MainFiles
    /\ excited_state_file \in MainFiles
    /\ result_file \in {<<>>, <<PriorBlock>>}
    /\ stdout = <<>>
    /\ origin = Unset /\ grid_size = Unset /\ grid_spacing = Unset
    /\ ground_density = Unset /\ excited_density = Unset
    /\ delta_rho_plus = Unset /\ delta_rho_minus = Unset
    /\ dct = Unset /\ qct = Unset
    /\ centroid_plus = Unset /\ centroid_minus = Unset
    /\ density = Unset /\ total_density = 0
    /\ grid_positions = Unset /\ centroid = Unset
    /\ futures = <<>> /\ i = 0
    /\ cube = Unset /\ read_result = Unset

\* line 195 (and 197-200 when it raises)
ReadGround ==
    /\ pc = "main_start"
    /\ \E r \in {ReadCubeFile(ground_state_file)} :
           IF r.ok
           THEN /\ origin' = r.origin
                /\ grid_size' = r.grid_size
                /\ grid_spacing' = r.grid_spacing
                /\ ground_density' = r.density_data
                /\ pc' = "read_excited"
                /\ UNCHANGED stdout
           ELSE /\ stdout' = Append(stdout, "Error while reading cube files")
                /\ pc' = "returned_read_error"
                /\ UNCHANGED <<geomVars, ground_density>>
    /\ UNCHANGED <<ground_state_file, excited_state_file, result_file,
                   excited_density, delta_rho_plus, delta_rho_minus,
                   metricVars, centroidVars, readVars>>

\* line 196 (and 197-200 when it raises): only the density is kept
ReadExcited ==
    /\ pc = "read_excited"
    /\ \E r \in {ReadCubeFile(excited_state_file)} :
           IF r.ok
           THEN /\ excited_density' = r.density_data
                /\ pc' = "check_shape"
                /\ UNCHANGED stdout
           ELSE /\ stdout' = Append(stdout, "Error while reading cube files")
                /\ pc' = "returned_read_error"
                /\ UNCHANGED excited_density
    /\ UNCHANGED <<ground_state_file, excited_state_file, result_file,
                   geomVars, ground_density, delta_rho_plus, delta_rho_minus,
                   metricVars, centroidVars, readVars>>

\* lines 203-206
CheckShape ==
    /\ pc = "check_shape"
    /\ IF ShapesDiffer(ground_density, excited_density)
       THEN /\ stdout' = Append(stdout, "Mismatch in grid size")
            /\ pc' = "returned_mismatch"
       ELSE /\ pc' = "difference"
            /\ UNCHANGED stdout
    /\ UNCHANGED <<ground_state_file, excited_state_file, result_file,
                   geomVars, diffVars, metricVars, centroidVars, readVars>>

\* line 209
Difference ==
    /\ pc = "difference"
    /\ \E r \in {ComputeDensityDifference(ground_density, excited_density)} :
         /\ delta_rho_plus' = r.plus
         /\ delta_rho_minus' = r.minus
    /\ pc' = "metrics"
    /\ UNCHANGED <<mainVars, geomVars, ground_density, excited_density,
                   metricVars, centroidVars, readVars>>

\* lines 212-218; an exception of compute_dct_and_qct is not caught
Metrics ==
    /\ pc = "metrics"
    /\ \E r \in {ComputeDctAndQct(delta_rho_plus, delta_rho_minus, origin,
                                 grid_size, grid_spacing)} :
           IF r.ok
           THEN /\ dct' = r.dct
                /\ qct' = r.qct
                /\ centroid_plus' = r.centroid_plus
                /\ centroid_minus' = r.centroid_minus
                /\ stdout' = stdout \o <<"DCT", "qCT", "R+", "R-">>
                /\ pc' = "write"
           ELSE /\ pc' = "crashed"
                /\ UNCHANGED <<metricVars, stdout>>
    /\ UNCHANGED <<ground_state_file, excited_state_file, result_file,
                   geomVars, diffVars, centroidVars, readVars>>

\* lines 226-238: the file may not be writable
WriteResults ==
    /\ pc = "write"
    /\ \E writable \in BOOLEAN :
         IF writable
         THEN /\ result_file' = AppendBlock(result_file, ResultBlock)
              /\ stdout' = Append(stdout, "Results successfully saved")
         ELSE /\ stdout' = Append(stdout, "Error while writing results to file")
              /\ UNCHANGED result_file
    /\ pc' = "returned"
    /\ UNCHANGED <<ground_state_file, excited_state_file, geomVars, diffVars,
                   metricVars, centroidVars, readVars>>

Next ==
    \/ ReadGround
    \/ ReadExcited
    \/ CheckShape
    \/ Difference
    \/ Metrics
    \/ WriteResults

Spec == Init /\ [][Next]_vars

-----------------------------------------------------------------------------
(* read_cube_file called directly *)

AxisCounts == {-1, 0, 1, 2}
AtomCounts == {-1, 0, 1}

\* the lines after the header: up to MaxLines lines of up to MaxTok tokens,
\* every token a different number
LineLengths == UNION {[1..n -> 0..MaxTok] : n \in 0..MaxLines}

BodyOf(lens) == [l \in 1..Len(lens) |-> [t \in 1..lens[l] |-> 10 * l + t]]

ReaderFile(n, size, lens) ==
    [exists |-> TRUE, num_atoms |-> n, origin |-> Vec3(1, -2, 3),
     grid_size |-> size, grid_spacing |-> SkewA, body |-> BodyOf(lens)]

InitRead ==
    /\ pc = "read_start"
    /\ \E n \in AtomCounts, nx \in AxisCounts, ny \in AxisCounts,
          nz \in AxisCounts, lens \in LineLengths :
            cube = ReaderFile(n, Shape(nx, ny, nz), lens)
    /\ read_result = Unset
    /\ ground_state_file = Unset /\ excited_state_file = Unset
    /\ result_file = <<>> /\ stdout = <<>>
    /\ origin = Unset /\ grid_size = Unset /\ grid_spacing = Unset
    /\ ground_density = Unset /\ excited_density = Unset
    /\ delta_rho_plus = Unset /\ delta_rho_minus = Unset
    /\ dct = Unset /\ qct = Unset
    /\ centroid_plus = Unset /\ centroid_minus = Unset
    /\ density = Unset /\ total_density = 0
    /\ grid_positions = Unset /\ centroid = Unset
    /\ futures = <<>> /\ i = 0

\* read_cube_file(cube) is called
CallReadCubeFile ==
    /\ pc = "read_start"
    /\ read_result' = ReadCubeFile(cube)
    /\ pc' = "read_done"
    /\ UNCHANGED <<cube, mainVars, geomVars, diffVars, metricVars,
                   centroidVars>>

NextRead == CallReadCubeFile

SpecRead == InitRead /\ [][NextRead]_vars

-----------------------------------------------------------------------------
(* Properties *)

\* sum of the function f over the finite set S
RECURSIVE SumOver(_, _)
SumOver(S, f) ==
    IF S = {} THEN 0
    ELSE LET x == CHOOSE y \in S : TRUE IN f[x] + SumOver(S \ {x}, f)

\* the cells (ix, iy, iz) of an array of the given shape
Cells(shape) ==
    (0..(shape[0] - 1)) \X (0..(shape[1] - 1)) \X (0..(shape[2] - 1))

CellIndex(c, a) == c[a + 1]

\* the spacing with the diagonal of sp and the off-diagonal entries of other
WithOffDiagonal(sp, other) ==
    [a \in Axes |-> [b \in Axes |-> IF a = b THEN sp[a][a] ELSE other[a][b]]]

OffDiagonals == Spacings \cup {Vec3(Vec3(7, 7, 7), Vec3(7, 7, 7), Vec3(7, 7, 7))}

Returned == pc = "cc_return"

\* C1: when calculate_centroid returns for a field of nonzero total (whose
\* shape is grid_size), component a of the result is the sum over all cells
\* of (origin[a] + i_a * grid_spacing[a][a]) * density[cell] divided by the
\* sum of density, and it is the same for every spacing matrix with the same
\* diagonal.
C1_CentroidIsWeightedMean ==
    (Returned /\ total_density # 0) =>
        /\ \A a \in Axes :
             LET moment == [c \in Cells(density.shape) |->
                     (origin[a] + CellIndex(c, a) * grid_spacing[a][a])
                         * At(density, c[1], c[2], c[3])]
                 mass == [c \in Cells(density.shape) |->
                     At(density, c[1], c[2], c[3])]
             IN  centroid[a] = Frac(SumOver(Cells(density.shape), moment),
                                    SumOver(Cells(density.shape), mass))
        /\ \A other \in OffDiagonals :
             CalculateCentroid(density, origin, grid_size,
                               WithOffDiagonal(grid_spacing, other)).value
                 = centroid

\* a weighted mean that is no grid point, on a skewed lattice
C1_Witness ==
    /\ Returned /\ total_density # 0
    /\ grid_spacing = SkewA
    /\ \E a \in Axes : centroid[a][2] > 1

DiffDone == pc \in {"differenced", "measured"}

Max0(x) == IF x > 0 THEN x ELSE 0
Min0(x) == IF x < 0 THEN x ELSE 0

\* C2: after compute_density_difference, at every cell delta_plus is
\* max(excited - ground, 0) and delta_minus is min(excited - ground, 0), the
\* two add up to excited - ground, and both have the shape of the inputs.
C2_DifferenceSplit ==
    DiffDone =>
        /\ delta_rho_plus.shape = ground_density.shape
        /\ delta_rho_minus.shape = excited_density.shape
        /\ Len(delta_rho_plus.data) = NumCells(ground_density.shape)
        /\ Len(delta_rho_minus.data) = NumCells(ground_density.shape)
        /\ \A c \in Cells(ground_density.shape) :
             LET d == At(excited_density, c[1], c[2], c[3])
                        - At(ground_density, c[1], c[2], c[3])
                 dp == At(delta_rho_plus, c[1], c[2], c[3])
                 dm == At(delta_rho_minus, c[1], c[2], c[3])
             IN  /\ dp = Max0(d)
                 /\ dm = Min0(d)
                 /\ dp + dm = d

\* a pair whose difference has a rising and a falling cell
C2_Witness ==
    /\ pc = "differenced"
    /\ \E p \in 1..Len(delta_rho_plus.data) : delta_rho_plus.data[p] > 0
    /\ \E p \in 1..Len(delta_rho_minus.data) : delta_rho_minus.data[p] < 0

\* C9 as stated: delta_plus - delta_minus equals excited - ground at every
\* cell (with delta_minus <= 0).
C9_AsStated ==
    DiffDone =>
        \A p \in 1..Len(ground_density.data) :
            /\ delta_rho_minus.data[p] <= 0
            /\ delta_rho_plus.data[p] - delta_rho_minus.data[p]
                 = excited_density.data[p] - ground_density.data[p]

\* C9 amended: delta_plus - delta_minus equals the absolute value of
\* excited - ground at every cell (with delta_minus <= 0).
C9_DifferenceMagnitude ==
    DiffDone =>
        \A p \in 1..Len(ground_density.data) :
            /\ delta_rho_minus.data[p] <= 0
            /\ delta_rho_plus.data[p] - delta_rho_minus.data[p]
                 = Abs(excited_density.data[p] - ground_density.data[p])

\* a cell where the excited density is below the ground density
C9_Witness ==
    /\ pc = "differenced"
    /\ \E p \in 1..Len(ground_density.data) :
         excited_density.data[p] < ground_density.data[p]

\* compute_density_difference then compute_dct_and_qct with the two fields
\* exchanged
Swapped ==
    LET d == ComputeDensityDifference(excited_density, ground_density)
    IN  ComputeDctAndQct(d.plus, d.minus, origin, grid_size, grid_spacing)

\* C3 as stated: with ground and excited exchanged the centroids are
\* exchanged, dct is the same and qct is the negation of the original qct.
C3_AsStated ==
    pc = "measured" =>
        \A sw \in {Swapped} :
            /\ sw.ok
            /\ sw.centroid_plus = centroid_minus
            /\ sw.centroid_minus = centroid_plus
            /\ sw.dct = dct
            /\ sw.qct = -qct

\* C3 amended: with ground and excited exchanged the centroids are
\* exchanged, dct is the same, and qct is minus the sum of the original
\* delta_minus: a non-negative number, equal to the original qct when the
\* sum of excited - ground over all cells is zero, and the negation of the
\* original qct only when ground = excited (both are then 0).
C3_SwapSymmetry ==
    pc = "measured" =>
        \A sw \in {Swapped} :
            /\ sw.ok
            /\ sw.centroid_plus = centroid_minus
            /\ sw.centroid_minus = centroid_plus
            /\ sw.dct = dct
            /\ sw.qct = -NpSum(delta_rho_minus)
            /\ sw.qct >= 0
            /\ (NpSum(excited_density) = NpSum(ground_density)) =>
                   sw.qct = qct
            /\ (sw.qct = -qct) <=> (ground_density = excited_density)

\* both lobes present, with different total mass
C3_Witness ==
    /\ pc = "measured"
    /\ qct > 0
    /\ NpSum(delta_rho_minus) < 0
    /\ qct # -NpSum(delta_rho_minus)
    /\ centroid_plus # centroid_minus

\* C4: a field whose sum is zero gets the zero vector from
\* calculate_centroid, whatever origin, grid_size and grid_spacing are: no
\* task is submitted, nothing is divided and nothing is raised; and for
\* ground = excited both difference fields are zero, qct = 0 and dct = 0.
C4_ZeroMass ==
    /\ (pc \in {"cc_return", "cc_raise"} \cup Phase1 \cup Phase2
          /\ NpSum(density) = 0) =>
            /\ pc = "cc_return"
            /\ centroid = Zeros3
            /\ futures = <<>>
            /\ grid_positions = Unset
    /\ (pc \in {"differenced", "measured", "raised"}
          /\ ground_density = excited_density) =>
            /\ pc # "raised"
            /\ delta_rho_plus = ZerosLike(ground_density)
            /\ delta_rho_minus = ZerosLike(ground_density)
            /\ pc = "measured" =>
                 /\ qct = 0
                 /\ dct = [sqrt_of |-> Zero]
                 /\ centroid_plus = Zeros3
                 /\ centroid_minus = Zeros3

\* a field with cells of both signs that cancel, and a grid_size that does
\* not describe it
C4_Witness ==
    /\ Returned
    /\ NpSum(density) = 0
    /\ \E p \in 1..Len(density.data) : density.data[p] # 0
    /\ grid_size # density.shape

\* C10: whatever the interleaving of the pool's tasks with the main thread,
\* (a) in each executor the future at position n was given axis n and the
\* slots collected so far hold exactly the results of their own futures,
\* the others being untouched; (b) while any weighted-sum task can run, all
\* three slots of grid_positions hold the positions of their axes; (c) the
\* function has returned (or raised) exactly as the sequential execution
\* does, with all three sums collected.
C10_SameAsSequential ==
    LET seq == CalculateCentroid(density, origin, grid_size, grid_spacing)
    IN  /\ (pc \in Phase1 \cup Phase2) =>
              \A n \in 1..Len(futures) : futures[n].arg = n - 1
        /\ pc = "cc_collect1" =>
              \A a \in Axes :
                 grid_positions[a] =
                    IF a < i THEN futures[a + 1].result
                    ELSE [p \in 1..NumCells(grid_size) |-> 0]
        /\ pc = "cc_collect2" =>
              \A a \in Axes :
                 centroid[a] = IF a < i THEN futures[a + 1].result ELSE Zero
        /\ (pc \in Phase2) =>
              \A a \in Axes :
                 grid_positions[a] =
                    PositionTask(a, origin, grid_size, grid_spacing)
        /\ pc = "cc_exit2" => i = 3
        /\ Returned => (seq.ok /\ centroid = seq.value)
        /\ pc = "cc_raise" => ~seq.ok

\* the last weighted-sum task finishes before the first, which the main
\* thread is waiting for
C10_Witness ==
    /\ pc = "cc_collect2" /\ i = 0
    /\ futures[3].state = "done"
    /\ futures[1].state = "pending"
    /\ grid_spacing = SkewA

\* what reading the two files of the run gives
GroundRead == ReadCubeFile(ground_state_file)
ExcitedRead == ReadCubeFile(excited_state_file)
BothReadable == GroundRead.ok /\ ExcitedRead.ok

\* main has not gone past its shape check
NotPastShapeCheck ==
    pc \in {"main_start", "read_excited", "check_shape", "returned_mismatch"}

NothingReported ==
    /\ \A n \in 1..Len(stdout) : stdout[n] \notin {"DCT", "qCT", "R+", "R-"}
    /\ pc \notin {"write", "returned"}

\* C5: when the two files declare different grid_size, main stops at its
\* shape check: compute_density_difference and calculate_centroid are never
\* invoked.
C5_AsStated ==
    (BothReadable /\ GroundRead.grid_size # ExcitedRead.grid_size) =>
        NotPastShapeCheck

\* C6 as stated: two files that differ in origin, grid_size or grid_spacing
\* make the run fail: no dct, qct or centroid is reported.
C6_AsStated ==
    (/\ BothReadable
     /\ \/ GroundRead.origin # ExcitedRead.origin
        \/ GroundRead.grid_size # ExcitedRead.grid_size
        \/ GroundRead.grid_spacing # ExcitedRead.grid_spacing) =>
        NothingReported

\* C6 amended: two files whose density arrays differ in shape make the run
\* stop at the shape check with nothing reported; origin, declared
\* grid_size and grid_spacing of the excited file are never compared, and
\* whatever is reported was computed with the geometry of the ground file.
C6_ShapeOnly ==
    /\ (BothReadable
          /\ GroundRead.density_data.shape # ExcitedRead.density_data.shape) =>
            (NotPastShapeCheck /\ NothingReported)
    /\ pc \in {"write", "returned"} =>
          \A g \in {GroundRead}, e \in {ExcitedRead} :
            \A d \in {ComputeDensityDifference(g.density_data,
                                                e.density_data)} :
              \A m \in {ComputeDctAndQct(d.plus, d.minus, g.origin,
                                          g.grid_size, g.grid_spacing)} :
                  /\ m.ok
                  /\ dct = m.dct /\ qct = m.qct
                  /\ centroid_plus = m.centroid_plus
                  /\ centroid_minus = m.centroid_minus

\* results reported for two files of different origin and spacing, where
\* the geometry of the excited file would have given another centroid
C6_Witness ==
    /\ pc = "returned"
    /\ GroundRead.origin # ExcitedRead.origin
    /\ GroundRead.grid_spacing # ExcitedRead.grid_spacing
    /\ qct > 0
    /\ CalculateCentroid(delta_rho_plus, ExcitedRead.origin, grid_size,
                         ExcitedRead.grid_spacing).value # centroid_plus

IsPrefix(s, t) == Len(s) <= Len(t) /\ SubSeq(t, 1, Len(s)) = s

C7_AsStated ==
    pc = "read_done" =>
        LET values == TokensFrom(cube, SliceStart(cube))
            product == cube.grid_size[0] * cube.grid_size[1]
                          * cube.grid_size[2]
        IN  /\ read_result.ok <=> (Len(values) = product)
            /\ read_result.ok =>
                 /\ read_result.density_data.shape = cube.grid_size
                 /\ \A c \in Cells(cube.grid_size) :
                      At(read_result.density_data, c[1], c[2], c[3]) =
                         values[(c[1] * cube.grid_size[1] + c[2])
                                   * cube.grid_size[2] + c[3] + 1]
            /\ ~read_result.ok => read_result.error = "ValueError"

====
